---- MODULE Spec2Model ----
(***************************************************************************)
(* Model of scripts/lint-queue-update.py: the queue record updater.        *)
(*                                                                         *)
(* A string is a sequence of characters, a character a one-character TLA+  *)
(* string.  The queue file is the character sequence `file`; splitlines,   *)
(* split, strip and join are computed on characters as Python computes     *)
(* them, and one action stands for each step of main().                    *)
(*                                                                         *)
(* Input domain: LF is the only line boundary of the alphabet, and         *)
(* status, commit and note hold no tab and no newline, as the contract of  *)
(* update requires of them.  write_text is taken to complete; read_text    *)
(* may raise.                                                              *)
(*                                                                         *)
(* Spec is one run of the script on a file of up to MaxLines lines.        *)
(* SpecRerun is up to MaxRuns runs in sequence on the same file.           *)
(***************************************************************************)
EXTENDS Integers, Sequences, FiniteSets, TLC

TAB == "\t"
LF == "\n"
HASH == "#"
SP == " "

\* ---------------------------------------------------------------- bounds
MaxLines == 2
MaxRuns == 2

\* ------------------------------------------------------ string functions
\* str.split(sep): always at least one field
RECURSIVE split(_, _)
split(s, sep) ==
  IF s = <<>> THEN << <<>> >>
  ELSE LET r == split(Tail(s), sep) IN
       IF Head(s) = sep THEN << <<>> >> \o r
       ELSE << <<Head(s)>> \o Head(r) >> \o Tail(r)

\* str.splitlines(): break at line boundaries, no empty last line
splitlines(s) ==
  LET p == split(s, LF) IN
  IF p[Len(p)] = <<>> THEN SubSeq(p, 1, Len(p) - 1) ELSE p

\* sep.join(parts)
RECURSIVE join(_, _)
join(parts, sep) ==
  IF parts = <<>> THEN <<>>
  ELSE IF Len(parts) = 1 THEN parts[1]
  ELSE parts[1] \o <<sep>> \o join(Tail(parts), sep)

isspace(c) == c \in {SP, TAB, LF}

RECURSIVE lstrip(_)
lstrip(s) == IF s # <<>> /\ isspace(Head(s)) THEN lstrip(Tail(s)) ELSE s

RECURSIVE rstrip(_)
rstrip(s) ==
  IF s # <<>> /\ isspace(s[Len(s)]) THEN rstrip(SubSeq(s, 1, Len(s) - 1)) ELSE s

\* str.strip()
strip(s) == rstrip(lstrip(s))

\* str.startswith(c) for a one-character prefix
startswith(s, c) == s # <<>> /\ s[1] = c

\* [""] * n
RECURSIVE empties(_)
empties(n) == IF n <= 0 THEN <<>> ELSE << <<>> >> \o empties(n - 1)

\* ------------------------------------------------------- the line loop
\* line 22: comment or blank line, passed through
IsSkippedOnlyHash(line) == startswith(line, HASH)

IsSkipped(line) == startswith(line, HASH) \/ strip(line) = <<>>

\* lines 26-27: pad to 6 fields
PadParts(parts) ==
  IF Len(parts) < 6 THEN parts \o empties(6 - Len(parts)) ELSE parts

\* line 28: parts[1] == task_id (0-based index 1)
Matches(parts, tid) == parts[2] = tid

\* lines 29-31: parts[0], parts[4], parts[5] overwritten
OverwriteShifted(parts, st, co, no) ==
  [parts EXCEPT ![1] = st, ![4] = co, ![5] = no]

OverwriteSwapped(parts, st, co, no) ==
  [parts EXCEPT ![1] = st, ![5] = no, ![6] = co]

OverwriteClobbersId(parts, st, co, no) ==
  [parts EXCEPT ![1] = st, ![2] = st, ![5] = co, ![6] = no]

Overwrite(parts, st, co, no) ==
  [parts EXCEPT ![1] = st, ![5] = co, ![6] = no]

\* line 33: "\t".join(parts[:6])
RenderAll(parts) == join(parts, TAB)

Render(parts) == join(SubSeq(parts, 1, 6), TAB)

\* line 39: "\n".join(updated) + "\n"
FileTextDoubleNewline(upd) == join(upd, LF) \o <<LF, LF>>

FileText(upd) == join(upd, LF) \o <<LF>>

\* -------------------------------------------------------------- inputs
E == <<>>
Rec(fields) == join(fields, TAB)

\* lines a queue file may hold: comments, blank lines, records of 1..7 fields
CommentNamingA == <<HASH, TAB, "a">>
SixFieldsA == Rec(<< <<"p">>, <<"a">>, <<"x">>, <<"y">>, E, E >>)
SixFieldsB == Rec(<< <<"p">>, <<"b">>, <<"x">>, <<"y">>, E, E >>)
TwoFieldsA == Rec(<< <<"p">>, <<"a">> >>)
OneField == Rec(<< <<"p">> >>)
SevenFieldsB ==
  Rec(<< <<"p">>, <<"b">>, <<"x">>, <<"y">>, <<"c">>, <<"n">>, <<"z">> >>)
SevenFieldsSixEmpty == Rec(<< E, E, E, E, E, E, <<"z">> >>)

LineSet ==
  { CommentNamingA, <<>>, <<SP, TAB>>, SixFieldsA, SixFieldsB, TwoFieldsA,
    OneField, SevenFieldsB, SevenFieldsSixEmpty }

\* the lines of the files the script is run on more than once
RerunLineSet ==
  { CommentNamingA, <<SP, TAB>>, SixFieldsA, TwoFieldsA, OneField, SevenFieldsB,
    SevenFieldsSixEmpty }

\* files of at most MaxLines lines, with and without the last newline
FilesOf(L) ==
  { join(ls, LF) \o t :
      ls \in UNION { [1..n -> L] : n \in 0..MaxLines }, t \in { <<>>, <<LF>> } }

InitFiles == FilesOf(LineSet)
RerunFiles == FilesOf(RerunLineSet)

Prog == <<"q">>
Path == <<"f">>
TaskIds == { <<"a">>, <<>> }
Statuses == { <<"d">>, <<HASH>>, <<>> }

\* sys.argv: full vectors, one with every argument empty, two too short
ArgvSet ==
  { <<Prog, Path, t, s, <<"c">>, <<"n">> >> : t \in TaskIds, s \in Statuses }
  \cup { <<Prog, Path, E, E, E, E>>,
         <<Prog, Path, <<"a">>, <<"d">>, <<"c">> >>,
         <<Prog>> }

\* ---------------------------------------------------------------- state
VARIABLES
  file,      \* content of the queue file
  argv,      \* sys.argv of the current run
  pc,        \* position in main()
  lines,     \* lines read (line 17)
  updated,   \* output sequence (line 18)
  found,     \* line 19
  i,         \* number of lines the loop has consumed
  exitCode,  \* exit status of the run, -1 while running
  raised,    \* the run ended by an uncaught exception
  reads,     \* read_text calls of the current run
  writes,    \* write_text calls of the current run
  file0,     \* file content when the current run started
  runs,      \* number of the current run
  prev       \* arguments and outcome of the previous run

vars == <<file, argv, pc, lines, updated, found, i, exitCode, raised,
          reads, writes, file0, runs, prev>>

\* line 7: len(sys.argv) < 6
MinArgcFive == 6 - 1

MinArgc == 6

\* lines 12-15
task_id == argv[3]
status == argv[4]
commit == argv[5]
note == argv[6]

NoPrev == [argv |-> <<>>, exitCode |-> -1, raised |-> FALSE, used |-> FALSE]

Start(F) ==
  /\ file \in F
  /\ argv \in ArgvSet
  /\ pc = "start"
  /\ lines = <<>>
  /\ updated = <<>>
  /\ found = FALSE
  /\ i = 0
  /\ exitCode = -1
  /\ raised = FALSE
  /\ reads = 0
  /\ writes = 0
  /\ file0 = file
  /\ runs = 1
  /\ prev = NoPrev

Init == Start(InitFiles)
InitRerun == Start(RerunFiles)

\* lines 7-15: the usage check, then the arguments are bound
CheckArgs ==
  /\ pc = "start"
  /\ IF Len(argv) < MinArgc
       THEN /\ pc' = "done"
            /\ exitCode' = 2
            /\ raised' = FALSE
     ELSE IF Len(argv) < 6
       THEN /\ pc' = "done"          \* IndexError at lines 11-15
            /\ exitCode' = 1
            /\ raised' = TRUE
     ELSE /\ pc' = "read"
          /\ UNCHANGED <<exitCode, raised>>
  /\ UNCHANGED <<file, argv, lines, updated, found, i, reads, writes,
                 file0, runs, prev>>

\* lines 17-19
ReadFile ==
  /\ pc = "read"
  /\ reads' = reads + 1
  /\ lines' = splitlines(file)
  /\ updated' = <<>>
  /\ found' = FALSE
  /\ i' = 0
  /\ pc' = "loop"
  /\ UNCHANGED <<file, argv, exitCode, raised, writes, file0, runs, prev>>

\* line 17 raising (missing or unreadable file): uncaught, the process ends
ReadFault ==
  /\ pc = "read"
  /\ reads' = reads + 1
  /\ raised' = TRUE
  /\ exitCode' = 1
  /\ pc' = "done"
  /\ UNCHANGED <<file, argv, lines, updated, found, i, writes, file0, runs, prev>>

\* lines 22-24
SkipLine ==
  /\ pc = "loop"
  /\ i < Len(lines)
  /\ IsSkipped(lines[i + 1])
  /\ updated' = Append(updated, lines[i + 1])
  /\ i' = i + 1
  /\ UNCHANGED <<file, argv, pc, lines, found, exitCode, raised, reads, writes,
                 file0, runs, prev>>

\* lines 25-33
RecordLineWritesEarly ==
  /\ pc = "loop"
  /\ i < Len(lines)
  /\ ~IsSkipped(lines[i + 1])
  /\ LET parts == PadParts(split(lines[i + 1], TAB))
         hit == Matches(parts, task_id)
         out == IF hit THEN Overwrite(parts, status, commit, note) ELSE parts
     IN /\ found' = (found \/ hit)
        /\ updated' = Append(updated, Render(out))
        /\ file' = IF hit THEN FileText(updated') ELSE file
        /\ writes' = IF hit THEN writes + 1 ELSE writes
  /\ i' = i + 1
  /\ UNCHANGED <<argv, pc, lines, exitCode, raised, reads, file0, runs, prev>>

RecordLineBreak ==
  /\ pc = "loop"
  /\ i < Len(lines)
  /\ ~IsSkipped(lines[i + 1])
  /\ LET parts == PadParts(split(lines[i + 1], TAB))
         hit == Matches(parts, task_id)
         out == IF hit THEN Overwrite(parts, status, commit, note) ELSE parts
     IN /\ found' = (found \/ hit)
        /\ updated' = Append(updated, Render(out))
        /\ i' = IF hit THEN Len(lines) ELSE i + 1
  /\ UNCHANGED <<file, argv, pc, lines, exitCode, raised, reads, writes,
                 file0, runs, prev>>

RecordLine ==
  /\ pc = "loop"
  /\ i < Len(lines)
  /\ ~IsSkipped(lines[i + 1])
  /\ LET parts == PadParts(split(lines[i + 1], TAB))
         hit == Matches(parts, task_id)
         out == IF hit THEN Overwrite(parts, status, commit, note) ELSE parts
     IN /\ found' = (found \/ hit)
        /\ updated' = Append(updated, Render(out))
  /\ i' = i + 1
  /\ UNCHANGED <<file, argv, pc, lines, exitCode, raised, reads, writes,
                 file0, runs, prev>>

\* lines 35-37
NotFoundButWrites ==
  /\ pc = "loop"
  /\ i = Len(lines)
  /\ ~found
  /\ file' = FileText(updated)
  /\ writes' = writes + 1
  /\ exitCode' = 1
  /\ pc' = "done"
  /\ UNCHANGED <<argv, lines, updated, found, i, raised, reads, file0, runs, prev>>

NotFound ==
  /\ pc = "loop"
  /\ i = Len(lines)
  /\ ~found
  /\ exitCode' = 1
  /\ pc' = "done"
  /\ UNCHANGED <<file, argv, lines, updated, found, i, raised, reads, writes,
                 file0, runs, prev>>

\* lines 39-40
WriteFile ==
  /\ pc = "loop"
  /\ i = Len(lines)
  /\ found
  /\ file' = FileText(updated)
  /\ writes' = writes + 1
  /\ exitCode' = 0
  /\ pc' = "done"
  /\ UNCHANGED <<argv, lines, updated, found, i, raised, reads, file0, runs, prev>>

\* lines 43-44: the script is run again, on the file the last run left
Invoke ==
  /\ pc = "done"
  /\ runs < MaxRuns
  /\ \E a \in ArgvSet : argv' = a
  /\ prev' = [argv |-> argv, exitCode |-> exitCode, raised |-> raised, used |-> TRUE]
  /\ file0' = file
  /\ runs' = runs + 1
  /\ pc' = "start"
  /\ lines' = <<>>
  /\ updated' = <<>>
  /\ found' = FALSE
  /\ i' = 0
  /\ exitCode' = -1
  /\ raised' = FALSE
  /\ reads' = 0
  /\ writes' = 0
  /\ UNCHANGED file

Next ==
  \/ CheckArgs
  \/ ReadFile
  \/ ReadFault
  \/ SkipLine
  \/ RecordLine
  \/ NotFound
  \/ WriteFile

\* one run of the script
Spec == Init /\ [][Next]_vars

NextRerun ==
  \/ Next
  \/ Invoke

\* up to MaxRuns runs in sequence on the same file
SpecRerun == InitRerun /\ [][NextRerun]_vars

\* ------------------------------------------------- vocabulary of the claims
Finished == pc = "done"
\* the run got past the usage check and met no I/O fault
RanUpdate == Finished /\ Len(argv) >= 6 /\ ~raised
Succeeded == Finished /\ exitCode = 0

In == splitlines(file0)
Out == splitlines(file)

CommentLine(l) == l # <<>> /\ l[1] = HASH
BlankLine(l) == \A k \in 1..Len(l) : l[k] \in {SP, TAB}
RecordLineP(l) == ~CommentLine(l) /\ ~BlankLine(l)

Fields(l) == split(l, TAB)
\* field n (0-based) of a line, empty where the line lacks it
Field(l, n) ==
  LET f == Fields(l) IN IF n + 1 <= Len(f) THEN f[n + 1] ELSE <<>>
\* the first six fields of a line, padded
Norm6(l) == [n \in 1..6 |-> Field(l, n - 1)]

\* positions of the input records whose id field equals task_id
MatchIdx ==
  LET in == In
  IN { k \in 1..Len(in) : RecordLineP(in[k]) /\ Field(in[k], 1) = task_id }

HasFields045(l) ==
  /\ Field(l, 0) = status
  /\ Field(l, 4) = commit
  /\ Field(l, 5) = note

AllBlank(s) == \A k \in 1..Len(s) : s[k] \in {SP, TAB}

\* ------------------------------------------------------------------ C1
\* C1: when no record line of the file has its id field (index 1) equal to
\* task_id, the run ends with exit code 1 and the file holds exactly the
\* bytes it held before the run; nothing is written.
C1_NoMatchSafety ==
  (RanUpdate /\ MatchIdx = {}) =>
     /\ exitCode = 1
     /\ file = file0
     /\ writes = 0

\* a miss on a file whose scan produced other text than the file holds
C1_Witness ==
  /\ RanUpdate
  /\ MatchIdx = {}
  /\ exitCode = 1
  /\ i = Len(lines)
  /\ \E k \in 1..Len(In) : RecordLineP(In[k])
  /\ FileText(updated) # file0

\* ------------------------------------------------------------------ C2
\* C2 as stated: with a single record matching task_id, after exit 0 that
\* record has status, commit, note in fields 0, 4, 5 and EVERY other line,
\* whatever its number of fields, is byte-identical to the input line.
C2_AllOtherLinesIdentical ==
  (Succeeded /\ Cardinality(MatchIdx) = 1) =>
     LET in == In
         out == Out
         hits == MatchIdx
     IN
       /\ Len(out) = Len(in)
       /\ \A k \in 1..Len(in) :
            k <= Len(out) =>
              IF k \in hits THEN HasFields045(out[k]) ELSE out[k] = in[k]

\* C2 amended: with a single record matching task_id, after exit 0 that
\* record has status, commit, note in fields 0, 4, 5; every other line that
\* is a comment, a blank line or a record of exactly 6 fields is
\* byte-identical to the input line, and every other record is rewritten as
\* its first 6 fields, padded with empty fields.
C2_ExactlyOneMatch ==
  (Succeeded /\ Cardinality(MatchIdx) = 1) =>
     LET in == In
         out == Out
         hits == MatchIdx
     IN
       /\ Len(out) = Len(in)
       /\ \A k \in 1..Len(in) :
            k <= Len(out) =>
              IF k \in hits THEN HasFields045(out[k])
              ELSE IF ~RecordLineP(in[k]) \/ Len(Fields(in[k])) = 6
                     THEN out[k] = in[k]
                   ELSE out[k] = join(Norm6(in[k]), TAB)

\* one match, next to a six-field record with another id
C2_Witness ==
  /\ Succeeded
  /\ Cardinality(MatchIdx) = 1
  /\ \E k \in 1..Len(In) :
       /\ k \notin MatchIdx
       /\ RecordLineP(In[k])
       /\ Len(Fields(In[k])) = 6
       /\ Field(In[k], 1) # task_id

\* ------------------------------------------------------------------ C3
\* C3: after a successful update every comment line and every blank or
\* whitespace-only line of the input stands unchanged at the same line
\* position of the output; such a line is not matched against task_id, so
\* a success always has a matching record line behind it.
C3_StructurePreserved ==
  Succeeded =>
     LET in == In
         out == Out
         hits == MatchIdx
     IN
       /\ \A k \in 1..Len(in) :
            (CommentLine(in[k]) \/ BlankLine(in[k])) =>
               k <= Len(out) /\ out[k] = in[k]
       /\ hits # {}

\* a success on a file with a comment whose second field is task_id
C3_Witness ==
  /\ Succeeded
  /\ \E k \in 1..Len(In) : CommentLine(In[k]) /\ Field(In[k], 1) = task_id

\* ------------------------------------------------------------------ C4
\* C4: a run with the same arguments as the run before it leaves the file
\* as that run left it: applying update twice gives the content of applying
\* it once.
C4_Idempotent ==
  (RanUpdate /\ prev.used /\ ~prev.raised /\ argv = prev.argv) =>
     file = file0

\* both applications found the record and wrote the file
C4_Witness ==
  /\ RanUpdate
  /\ prev.used
  /\ argv = prev.argv
  /\ prev.exitCode = 0
  /\ exitCode = 0
  /\ writes = 1

\* ------------------------------------------------------------------ C5
\* C5: after a successful update every record line of the written file has
\* exactly 6 tab-separated fields; a shorter input record is padded with
\* empty fields and a longer one cut to its first 6, matched or not.
C5_SixFields ==
  Succeeded =>
     LET in == In
         out == Out
         hits == MatchIdx
     IN
       /\ Len(out) = Len(in)
       /\ \A k \in 1..Len(out) : RecordLineP(out[k]) => Len(Fields(out[k])) = 6
       /\ \A k \in 1..Len(in) :
            (k <= Len(out) /\ RecordLineP(in[k])) =>
               /\ Len(Fields(out[k])) = 6
               /\ k \notin hits => Fields(out[k]) = Norm6(in[k])
               /\ k \in hits =>
                    \A n \in 1..3 : Field(out[k], n) = Field(in[k], n)

\* a success on a file with a short record and a long one
C5_Witness ==
  /\ Succeeded
  /\ \E k \in 1..Len(In) : RecordLineP(In[k]) /\ Len(Fields(In[k])) < 6
  /\ \E k \in 1..Len(In) : RecordLineP(In[k]) /\ Len(Fields(In[k])) > 6

\* ------------------------------------------------------------------ C6
\* C6: with fewer than 5 positional arguments the run ends with exit code 2
\* and has neither read nor written the file; no file access happens in a
\* run whose arguments did not pass the check.
C6_UsageError ==
  /\ (Finished /\ Len(argv) < 6) =>
        /\ exitCode = 2
        /\ ~raised
        /\ reads = 0
        /\ writes = 0
        /\ file = file0
  /\ (reads > 0 \/ writes > 0) => Len(argv) >= 6

\* a run with four positional arguments has ended with code 2
C6_Witness == Finished /\ Len(argv) = 5 /\ exitCode = 2 /\ reads = 0

C8_MatchedFrame ==
  Succeeded =>
     LET in == In
         out == Out
         hits == MatchIdx
     IN
       \A k \in hits :
          /\ k <= Len(out)
          /\ Len(Fields(out[k])) = 6
          /\ \A n \in 1..3 : Field(out[k], n) = Field(in[k], n)

\* a matched record with fields 2 and 3 set, and one that lacks them
C8_Witness ==
  /\ Succeeded
  /\ \E k \in MatchIdx : Field(In[k], 2) # <<>> /\ Field(In[k], 3) # <<>>
  /\ \E k \in MatchIdx : Len(Fields(In[k])) < 3

\* ------------------------------------------------------------------ C9
\* C9: whenever one or more record lines have id field task_id the run
\* exits 0 and every one of them, not only the first, has status, commit,
\* note in fields 0, 4, 5 of the output.
C9_EveryDuplicateUpdated ==
  (RanUpdate /\ MatchIdx # {}) =>
     LET in == In
         out == Out
         hits == MatchIdx
     IN
       /\ exitCode = 0
       /\ Len(out) = Len(in)
       /\ \A k \in hits : k <= Len(out) => HasFields045(out[k])

\* two records with the same id, updated by one run
C9_Witness == Succeeded /\ Cardinality(MatchIdx) >= 2

\* ----------------------------------------------------------------- C10
\* C10 as stated: after a run that exited 0, the next run with the same
\* task_id exits 0 too, whatever the status of the first run was.
C10_AlwaysAddressable ==
  (RanUpdate /\ prev.used /\ prev.exitCode = 0 /\ task_id = prev.argv[3]) =>
     exitCode = 0

\* C10 amended: after a run that exited 0 with a status that does not begin
\* with '#', and with status, task_id, commit, note not all empty or
\* whitespace-only, the next run with the same task_id exits 0 too; an
\* empty status is among these.
C10_AddressableUnlessCommentOrBlank ==
  ( /\ RanUpdate
    /\ prev.used
    /\ prev.exitCode = 0
    /\ task_id = prev.argv[3]
    /\ ~startswith(prev.argv[4], HASH)
    /\ ~(\A n \in 3..6 : AllBlank(prev.argv[n])) ) =>
     exitCode = 0

\* the record was updated with an empty status and found again
C10_Witness ==
  /\ RanUpdate
  /\ prev.used
  /\ prev.exitCode = 0
  /\ task_id = prev.argv[3]
  /\ prev.argv[4] = <<>>
  /\ exitCode = 0

====
